---------------------------- MODULE Spec2Model ----------------------------
(***************************************************************************)
(* Model of free_energy_module_oo.py: the trapezoid integrator, the        *)
(* autocorrelation error estimator, the lattice-log reader, the MD         *)
(* aggregator, the coupling-parameter pipeline and the temperature         *)
(* dataflow of fe_sample.__init__.                                         *)
(*                                                                         *)
(* Numbers.  The program computes in IEEE doubles.  The model computes in  *)
(* exact arithmetic: a rational is a pair <<n, d>> in lowest terms with    *)
(* d > 0; a number ("Num") is a finite sum of rational multiples of square *)
(* roots of squarefree integers, kept as a function from the radicand to   *)
(* its non-zero coefficient (np.std and N**.5 take square roots).  The     *)
(* non-finite doubles the program can produce (nan, inf) are kept as       *)
(* tagged values.  Rounding is not modelled.                               *)
(*                                                                         *)
(* Indices.  Python sequences are 0-based, the model's are 1-based:        *)
(* x[0] is x[1] here and x[-1] is x[Len(x)].                               *)
(***************************************************************************)
EXTENDS Integers, Sequences, FiniteSets, TLC

VARIABLES pc, args, result

vars == <<pc, args, result>>

(***************************************************************************)
(* Bounds of the enumerated inputs.                                        *)
(***************************************************************************)
MaxN == 3
MaxX == 3
MaxY == 1
MaxLen == 4
MaxU == 2
MaxLines == 3
MaxDirs == 3
MaxTrees == 3
MaxNmols == 2

\* The function f itself, tabulated once: TLC would otherwise evaluate the
\* body of a function expression again at every application.
Tab(f) == f @@ <<>>

(***************************************************************************)
(* Exact rationals.                                                        *)
(***************************************************************************)
Abs(n) == IF n < 0 THEN -n ELSE n

RECURSIVE GCD(_, _)
GCD(a, b) == IF b = 0 THEN a ELSE GCD(b, a % b)

Rat(n, d) ==
    LET g == GCD(Abs(n), Abs(d))
        s == IF d < 0 THEN -1 ELSE 1
    IN  <<(s * n) \div g, (s * d) \div g>>

RatOfInt(n) == <<n, 1>>
RZero == <<0, 1>>
RatAdd(a, b) ==
    LET g == GCD(a[2], b[2])
    IN  Rat(a[1] * (b[2] \div g) + b[1] * (a[2] \div g), (a[2] \div g) * b[2])
RatNeg(a) == <<-a[1], a[2]>>
RatSub(a, b) == RatAdd(a, RatNeg(b))
RatMul(a, b) == Rat(a[1] * b[1], a[2] * b[2])
RatDiv(a, b) == Rat(a[1] * b[2], a[2] * b[1])
RatLess(a, b) == a[1] * b[2] < b[1] * a[2]
RatAbs(a) == <<Abs(a[1]), a[2]>>

(***************************************************************************)
(* Numbers: sums of q * sqrt(r), r squarefree.  A rational q is q*sqrt(1). *)
(***************************************************************************)
NumZero == [r \in {} |-> RZero]
NumOfRat(q) == IF q = RZero THEN NumZero ELSE [r \in {1} |-> q]
NumOfInt(n) == NumOfRat(RatOfInt(n))

NumCoef(a, r) == IF r \in DOMAIN a THEN a[r] ELSE RZero

NumAdd(a, b) ==
    LET D == {r \in (DOMAIN a) \cup (DOMAIN b) :
                 RatAdd(NumCoef(a, r), NumCoef(b, r)) # RZero}
    IN  Tab([r \in D |-> RatAdd(NumCoef(a, r), NumCoef(b, r))])

NumScale(q, a) ==
    IF q = RZero THEN NumZero ELSE Tab([r \in DOMAIN a |-> RatMul(q, a[r])])

NumSub(a, b) == NumAdd(a, NumScale(RatOfInt(-1), b))

\* The largest s with s*s dividing n (n > 0).
RECURSIVE SqrtBound(_, _)
SqrtBound(n, p) == IF p > n \div p THEN p ELSE SqrtBound(n, 2 * p)

SquarePart(n) ==
    LET C == {s \in 1..SqrtBound(n, 1) : s <= n \div s /\ n % (s * s) = 0}
    IN  CHOOSE s \in C : \A t \in C : t <= s

\* sqrt(n) for an integer n > 0, as s * sqrt(n / s^2).
SqrtInt(n) ==
    LET s == SquarePart(n) IN [r \in {n \div (s * s)} |-> RatOfInt(s)]

\* sqrt(p/q) = sqrt(p*q)/q for a rational p/q >= 0.
SqrtRat(a) ==
    IF a[1] = 0 THEN NumZero
    ELSE NumScale(Rat(1, a[2]), SqrtInt(a[1] * a[2]))

\* a / m for a monomial m = b*sqrt(s): q*sqrt(r)/(b*sqrt(s)) = q/(b*s) * sqrt(r*s).
RECURSIVE NumSumSet(_, _)
NumSumSet(f, S) ==
    IF S = {} THEN NumZero
    ELSE LET r == CHOOSE r \in S : TRUE
         IN  NumAdd(f[r], NumSumSet(f, S \ {r}))

NumDivMono(a, m) ==
    LET s == CHOOSE s \in DOMAIN m : TRUE
        term == Tab([r \in DOMAIN a |->
                    NumScale(RatDiv(a[r], RatMul(m[s], RatOfInt(s))), SqrtInt(r * s))])
    IN  NumSumSet(term, DOMAIN a)

RECURSIVE NumSum(_)
NumSum(seq) ==
    IF Len(seq) = 0 THEN NumZero
    ELSE NumAdd(seq[1], NumSum(Tail(seq)))

\* Input enumeration and lifting of integer inputs.
SeqsUpTo(S, n) == UNION {[1..k -> S] : k \in 0..n}
RatSeq(s) == Tab([k \in 1..Len(s) |-> RatOfInt(s[k])])
NumSeq(s) == Tab([k \in 1..Len(s) |-> NumOfInt(s[k])])

(***************************************************************************)
(* numpy helpers used by the program.                                      *)
(***************************************************************************)
\* Python slice s[:k]
Prefix(s, k) == SubSeq(s, 1, IF k < Len(s) THEN k ELSE Len(s))

\* Python slice s[k:]
Drop(s, k) == IF k >= Len(s) THEN <<>> ELSE SubSeq(s, k + 1, Len(s))

\* np.gradient(f) of a 1-D series with unit spacing, for Len(f) >= 2: one-sided
\* differences at the two ends, central differences inside.  np.gradient raises
\* ValueError for fewer than two elements; callers test GradientRaises first.
GradientRaises(f) == Len(f) < 2

Gradient(f) ==
    LET n == Len(f)
    IN  Tab([k \in 1..n |->
            IF k = 1 THEN NumSub(f[2], f[1])
            ELSE IF k = n THEN NumSub(f[n], f[n - 1])
            ELSE NumScale(Rat(1, 2), NumSub(f[k + 1], f[k - 1]))])

\* np.trapz(y, x): sum of diff(x) * (y[1:] + y[:-1]) / 2
Trapz(y, x) ==
    NumSum(Tab([k \in 1..(Len(x) - 1) |->
                   NumScale(RatMul(RatSub(x[k + 1], x[k]), Rat(1, 2)),
                            NumAdd(y[k + 1], y[k]))]))

(***************************************************************************)
(* intgrt(x, y): x a sequence of rationals, y a sequence of numbers of the *)
(* same length.  I and err start as [0]; one element is appended for every *)
(* i in range(1, len(x)).                                                  *)
(***************************************************************************)
IStartEmpty == <<>>

IStart == <<NumZero>>

ErrStartEmpty == <<>>

ErrStart == <<NumZero>>

IntgrtErrDen(x) == 12 * Len(x) * Len(x)

IntgrtStep(x, y, i) ==
    LET y_p == Gradient(Prefix(y, i + 1))
        w   == RatSub(x[Len(x)], x[1])
    IN  [I   |-> Trapz(Prefix(y, i + 1), Prefix(x, i + 1)),
         err |-> NumScale(RatDiv(RatMul(w, w), RatOfInt(IntgrtErrDen(x))),
                          NumSub(y_p[i + 1], y_p[1]))]

Intgrt(x, y) ==
    LET n == Len(x)
        tailI   == IF n <= 1 THEN <<>> ELSE Tab([i \in 1..(n - 1) |-> IntgrtStep(x, y, i).I])
        tailErr == IF n <= 1 THEN <<>> ELSE Tab([i \in 1..(n - 1) |-> IntgrtStep(x, y, i).err])
    IN  [kind |-> "ok", I |-> IStart \o tailI, err |-> ErrStart \o tailErr]

(***************************************************************************)
(* Doubles that may be non-finite: [k |-> "fin", v |-> value], [k |->      *)
(* "nan"] or [k |-> "inf"] (only +inf arises).  numpy's division warns and *)
(* returns nan or inf on a zero divisor; it does not raise.                *)
(***************************************************************************)
Fin(v) == [k |-> "fin", v |-> v]
NaN == [k |-> "nan"]
Inf == [k |-> "inf"]

\* a / b for finite rationals a >= 0, b >= 0 or any a with b # 0 (c / c[0])
ExtRatDiv(a, b) ==
    IF b # RZero THEN Fin(RatDiv(a, b))
    ELSE IF a = RZero THEN NaN
    ELSE Inf

\* c * np.sign(c): the absolute value, nan stays nan.
TimesSign(e) == IF e.k = "fin" THEN Fin(RatAbs(e.v)) ELSE e

\* c > .1 as numpy evaluates it: False for nan, True for +inf.
ThresholdNum == 1
ThresholdDen == 10
AboveThreshold(e) ==
    CASE e.k = "nan" -> FALSE
      [] e.k = "inf" -> TRUE
      [] OTHER       -> RatLess(Rat(ThresholdNum, ThresholdDen), e.v)

\* len(u) / c_trs with c_trs a numpy integer: inf (and a warning) for c_trs = 0.
DivLenByCountNaN(n, c) == IF c = 0 THEN NaN ELSE Fin(Rat(n, c))

DivLenByCount(n, c) == IF c = 0 THEN Inf ELSE Fin(Rat(n, c))

\* N ** .5
ExtSqrt(e) == IF e.k = "fin" THEN Fin(SqrtRat(e.v)) ELSE e

\* s / r for a finite number s and r = N**.5 (finite and non-zero, inf, or nan).
DivBySqrtN(s, r) ==
    CASE r.k = "nan" -> NaN
      [] r.k = "inf" -> Fin(NumZero)
      [] OTHER       -> Fin(NumDivMono(s, r.v))

\* f[lo] + ... + f[hi], summed by halves
RECURSIVE RatSumRange(_, _, _)
RatSumRange(f, lo, hi) ==
    IF lo > hi THEN RZero
    ELSE IF lo = hi THEN f[lo]
    ELSE LET mid == (lo + hi) \div 2
         IN  RatAdd(RatSumRange(f, lo, mid), RatSumRange(f, mid + 1, hi))

RatSumTo(f, n) == RatSumRange(f, 1, n)

\* np.mean(u) and np.std(u) of a non-empty series of rationals
Mean(u) == RatDiv(RatSumTo(u, Len(u)), RatOfInt(Len(u)))

Variance(u) ==
    LET m == Mean(u)
        d == Tab([k \in 1..Len(u) |-> RatMul(RatSub(u[k], m), RatSub(u[k], m))])
    IN  RatDiv(RatSumTo(d, Len(u)), RatOfInt(Len(u)))

Std(u) == SqrtRat(Variance(u))

(***************************************************************************)
(* _error_from_u(u), u a sequence of rationals.                            *)
(***************************************************************************)
LagCap == 1000

RatGradient(u) ==
    LET g == Gradient(Tab([k \in 1..Len(u) |-> NumOfRat(u[k])]))
    IN  Tab([k \in 1..Len(u) |-> NumCoef(g[k], 1)])

\* A lag sum that wraps around the end of the series instead of stopping there.
AutocovCircular(ug, i) ==
    LET n == Len(ug)
    IN  RatSumTo(Tab([t \in 1..n |-> RatMul(ug[t], ug[((t - 1 + i) % n) + 1])]), n)

\* np.sum(ug[t1]*ug[t2]), t1 = arange(0, len(ug)-i), t2 = arange(i, len(ug)):
\* both index ranges are empty when i >= len(ug), and the sum is 0.
Autocov(ug, i) ==
    LET m == Len(ug) - i
    IN  IF m <= 0 THEN RZero
        ELSE RatSumTo(Tab([t \in 1..m |-> RatMul(ug[t], ug[t + i])]), m)

Lags == 0..(LagCap - 1)

\* c[i] after c = c/c[0] and c = c*np.sign(c)
NormalizedAutocov(ug, c0, i) == TimesSign(ExtRatDiv(Autocov(ug, i), c0))

\* c_trs = np.sum(c > .1)
CountAbove(ug, c0) ==
    Cardinality({i \in Lags : AboveThreshold(NormalizedAutocov(ug, c0, i))})

\* The function's locals c[0], c_trs and N_independent are kept beside the
\* returned value ret.
ErrorReturn(u, c0, c_trs, N_independent) ==
    [kind |-> "ok",
     c0 |-> c0,
     c_trs |-> c_trs,
     N_independent |-> N_independent,
     ret |-> DivBySqrtN(Std(u), ExtSqrt(N_independent))]

ErrorFromCount(u, c0, c_trs) ==
    ErrorReturn(u, c0, c_trs, DivLenByCount(Len(u), c_trs))

ErrorFromGradient(u, ug, c0) == ErrorFromCount(u, c0, CountAbove(ug, c0))

ErrorFromU(u) ==
    IF GradientRaises(u) THEN [kind |-> "ValueError"]
    ELSE ErrorFromGradient(u, RatGradient(u), Autocov(RatGradient(u), 0))

\* One series longer than the lag cap: the ramp 1, 2, ..., 1200, whose gradient
\* is constant, so that every one of the 1000 lags is above the threshold.
LongSeries == [k \in 1..(LagCap + LagCap \div 5) |-> k]

USeries == SeqsUpTo(0..MaxU, MaxLen) \cup {LongSeries}

InitErr ==
    /\ pc = "start"
    /\ args \in {[u |-> u] : u \in USeries}
    /\ result = [kind |-> "none"]

CallErrorFromU ==
    /\ pc = "start"
    /\ pc' = "done"
    /\ result' = ErrorFromU(RatSeq(args.u))
    /\ UNCHANGED args

NextErr == CallErrorFromU

SpecErr == InitErr /\ [][NextErr]_vars

IsConstant(u) == \A j, k \in 1..Len(u) : u[j] = u[k]

Min(a, b) == IF a < b THEN a ELSE b

\* C4: on a constant series of length >= 2, _error_from_u returns exactly 0
\* (no exception, no nan, no inf) although the lag-0 autocovariance of the
\* gradient is 0 and c_trs is 0.
C4_ConstantSeriesZero ==
    (pc = "done" /\ Len(args.u) >= 2 /\ IsConstant(args.u)) =>
        /\ result.kind = "ok"
        /\ result.c0 = RZero
        /\ result.c_trs = 0
        /\ result.ret = Fin(NumZero)

C4_Witness ==
    /\ pc = "done"
    /\ Len(args.u) >= 2
    /\ IsConstant(args.u)
    /\ args.u[1] # 0
    /\ result.kind = "ok"
    /\ result.N_independent = Inf
    /\ result.ret = Fin(NumZero)

\* C10: on a non-constant series of length >= 2 (shorter than the lag cap
\* included: lags at or beyond the length contribute 0 and nothing fails),
\* 1 <= c_trs <= min(1000, len(u)), so len(u)/c_trs is finite and >= 1.
C10_CountBounds ==
    (pc = "done" /\ Len(args.u) >= 2 /\ ~IsConstant(args.u)) =>
        /\ result.kind = "ok"
        /\ 1 <= result.c_trs
        /\ result.c_trs <= Min(LagCap, Len(args.u))
        /\ result.N_independent.k = "fin"
        /\ ~RatLess(result.N_independent.v, RatOfInt(1))
        /\ \A i \in Len(args.u)..(LagCap - 1) :
               Autocov(RatGradient(RatSeq(args.u)), i) = RZero

C10_WitnessCap ==
    /\ pc = "done"
    /\ Len(args.u) > LagCap
    /\ result.c_trs = LagCap

C10_Witness ==
    /\ pc = "done"
    /\ Len(args.u) >= 3
    /\ ~IsConstant(args.u)
    /\ result.kind = "ok"
    /\ result.c_trs >= 2
    /\ result.c_trs <= Len(args.u)

(***************************************************************************)
(* Text.  A line (and a directory name) is a sequence of one-character     *)
(* strings; file.readlines() keeps the newline that ends a line.           *)
(***************************************************************************)
Whitespace == {" ", "\n"}
Digits == {"0", "1", "2", "3", "4", "5", "6", "7", "8", "9"}

DigitVal(ch) ==
    CASE ch = "0" -> 0 [] ch = "1" -> 1 [] ch = "2" -> 2 [] ch = "3" -> 3
      [] ch = "4" -> 4 [] ch = "5" -> 5 [] ch = "6" -> 6 [] ch = "7" -> 7
      [] ch = "8" -> 8 [] ch = "9" -> 9

\* str.split(): the maximal runs of non-whitespace characters, in order.
RECURSIVE SplitFrom(_, _, _, _)
SplitFrom(line, i, cur, acc) ==
    LET flush == IF cur = <<>> THEN acc ELSE Append(acc, cur)
    IN  IF i > Len(line) THEN flush
        ELSE IF line[i] \in Whitespace THEN SplitFrom(line, i + 1, <<>>, flush)
        ELSE SplitFrom(line, i + 1, Append(cur, line[i]), acc)

Split(line) == SplitFrom(line, 1, <<>>, <<>>)

\* The value of a run of digits, most significant first.
RECURSIVE DigitsVal(_)
DigitsVal(ds) ==
    IF Len(ds) = 0 THEN 0
    ELSE 10 * DigitsVal(SubSeq(ds, 1, Len(ds) - 1)) + DigitVal(ds[Len(ds)])

RECURSIVE Pow10(_)
Pow10(n) == IF n = 0 THEN 1 ELSE 10 * Pow10(n - 1)

AllDigits(t) == Len(t) >= 1 /\ \A k \in 1..Len(t) : t[k] \in Digits

Unsigned(tok) ==
    IF Len(tok) >= 1 /\ tok[1] \in {"-", "+"} THEN Tail(tok) ELSE tok

Sign(tok) == IF Len(tok) >= 1 /\ tok[1] = "-" THEN -1 ELSE 1

\* int(tok) for the literals [sign] digits; anything else is a ValueError.
ParseInt(tok) ==
    IF AllDigits(Unsigned(tok))
    THEN [ok |-> TRUE, v |-> Sign(tok) * DigitsVal(Unsigned(tok))]
    ELSE [ok |-> FALSE]

\* float(tok) for the literals [sign] digits [. digits]; every other token
\* of the modelled inputs (words such as "time") is a ValueError.
ParseFloat(tok) ==
    LET body == Unsigned(tok)
        dots == {k \in 1..Len(body) : body[k] = "."}
    IN  IF dots = {} THEN
            IF AllDigits(body)
            THEN [ok |-> TRUE, v |-> RatOfInt(Sign(tok) * DigitsVal(body))]
            ELSE [ok |-> FALSE]
        ELSE
            LET d    == CHOOSE k \in dots : TRUE
                ip   == SubSeq(body, 1, d - 1)
                fp   == SubSeq(body, d + 1, Len(body))
            IN  IF Cardinality(dots) = 1 /\ AllDigits(ip) /\ AllDigits(fp)
                THEN [ok |-> TRUE,
                      v  |-> Rat(Sign(tok) * (DigitsVal(ip) * Pow10(Len(fp)) + DigitsVal(fp)),
                                 Pow10(Len(fp)))]
                ELSE [ok |-> FALSE]

(***************************************************************************)
(* lammps_log_to_U_latt, applied to the lines of the opened file.          *)
(***************************************************************************)
MarkerText == <<"L", "o", "o", "p", " ", "t", "i", "m", "e">>
MarkerLen == 9

\* A looser match: the first two whitespace-delimited fields are Loop, time.
IsMarkerByFields(line) ==
    LET f == Split(line)
    IN  Len(f) >= 2 /\ f[1] = SubSeq(MarkerText, 1, 4) /\ f[2] = SubSeq(MarkerText, 6, 9)

\* lines[i][:9] == 'Loop time'
IsMarker(line) == Prefix(line, MarkerLen) = MarkerText

\* [i-1 for i in range(len(lines)) if lines[i][:9]=='Loop time'], as the
\* 1-based positions of the marker lines
MarkerPositions(lines) == {p \in 1..Len(lines) : IsMarker(lines[p])}

\* Python indexing lines[j] for a 0-based j >= -len(lines): a negative j
\* counts from the end.  Returns the 1-based position.
PyIndex(lines, j) == IF j < 0 THEN Len(lines) + j + 1 ELSE j + 1

LammpsLogToULatt(lines) ==
    LET marks == MarkerPositions(lines)
    IN  IF marks = {} THEN [kind |-> "IndexError"]
        ELSE
            LET first     == CHOOSE p \in marks : \A q \in marks : p <= q
                last_step == (first - 1) - 1
                at        == PyIndex(lines, last_step)
                fields    == Split(lines[at])
            IN  IF Len(fields) < 2 THEN [kind |-> "IndexError"]
                ELSE IF ~ParseFloat(fields[2]).ok THEN [kind |-> "ValueError"]
                ELSE [kind |-> "ok", val |-> ParseFloat(fields[2]).v, line |-> at]

LogLines ==
    { <<"L", "o", "o", "p", " ", "t", "i", "m", "e", " ", "o", "f", " ", "1", "\n">>,
      <<"L", "o", "o", "p", " ", "t", "i", "m", "e", "o", "u", "t", " ", "4", "\n">>,
      <<" ", "L", "o", "o", "p", " ", "t", "i", "m", "e", "\n">>,
      <<"0", " ", "-", "1", "2", " ", "3", "\n">>,
      <<"5", " ", "8", ".", "5", "\n">>,
      <<"7", "\n">>,
      <<"\n">> }

InitLog ==
    /\ pc = "start"
    /\ args \in {[lines |-> l] : l \in SeqsUpTo(LogLines, MaxLines)}
    /\ result = [kind |-> "none"]

CallLammpsLogToULatt ==
    /\ pc = "start"
    /\ pc' = "done"
    /\ result' = LammpsLogToULatt(args.lines)
    /\ UNCHANGED args

NextLog == CallLammpsLogToULatt

SpecLog == InitLog /\ [][NextLog]_vars

\* The claims' own reading of "a line beginning with Loop time".
BeginsWithLoopTime(line) ==
    /\ Len(line) >= Len(MarkerText)
    /\ \A k \in 1..Len(MarkerText) : line[k] = MarkerText[k]

LoopTimeLines(lines) == {p \in 1..Len(lines) : BeginsWithLoopTime(lines[p])}

FirstLoopTime(lines) ==
    CHOOSE p \in LoopTimeLines(lines) : \A q \in LoopTimeLines(lines) : p <= q

HasNumericSecondField(line) ==
    Len(Split(line)) >= 2 /\ ParseFloat(Split(line)[2]).ok

\* C7: on a file with no line beginning with 'Loop time' (the empty file
\* included) lammps_log_to_U_latt fails with an index error, returning nothing.
C7_NoMarkerIndexError ==
    (pc = "done" /\ LoopTimeLines(args.lines) = {}) =>
        result = [kind |-> "IndexError"]

C7_Witness ==
    /\ pc = "done"
    /\ LoopTimeLines(args.lines) = {}
    /\ \E p \in 1..Len(args.lines) : HasNumericSecondField(args.lines[p])
    /\ \E p \in 1..Len(args.lines) : IsMarkerByFields(args.lines[p])
    /\ result.kind = "IndexError"

\* C8: whenever the file has a line beginning with 'Loop time', wherever the
\* first one is (the first line included), a returned value is the second
\* field of the line just before that first marker line and of no other
\* line, and it is returned whenever that line has such a field.
C8_PrecedingLineField ==
    (pc = "done" /\ LoopTimeLines(args.lines) # {}) =>
        LET p == FirstLoopTime(args.lines)
        IN  /\ result.kind = "ok" =>
                   /\ p > 1
                   /\ result.line = p - 1
                   /\ result.val = ParseFloat(Split(args.lines[p - 1])[2]).v
            /\ (p > 1 /\ HasNumericSecondField(args.lines[p - 1])) =>
                   result.kind = "ok"

\* C8 restricted to files whose first marker line is not the first line (holds).
LogPrecedingWhenNotFirst ==
    (pc = "done" /\ LoopTimeLines(args.lines) # {} /\ FirstLoopTime(args.lines) > 1) =>
        LET p == FirstLoopTime(args.lines)
        IN  /\ result.kind = "ok" =>
                   /\ result.line = p - 1
                   /\ result.val = ParseFloat(Split(args.lines[p - 1])[2]).v
            /\ HasNumericSecondField(args.lines[p - 1]) => result.kind = "ok"

(***************************************************************************)
(* Run directories.  list_of_directories returns list(set(...)): the       *)
(* distinct names of the sub-directories in an arbitrary order ("listing").*)
(* A run's simulation.out is modelled after its comment header has been    *)
(* stripped, as its table of numeric rows: "lead" leading rows whose       *)
(* content is immaterial here (equilibration steps, all equal to           *)
(* FillerRow) followed by the rows "tail".  A row keeps the two columns    *)
(* the program reads: <<column 3, column 5>> of an MD run, <<column 7,     *)
(* column 8>> of a dual-potential run.                                     *)
(***************************************************************************)
FillerRow == <<RZero, RZero>>

FileRows(f) ==
    IF f.lead = 0 THEN f.tail ELSE Tab([k \in 1..f.lead |-> FillerRow]) \o f.tail

Column(rows, c) == Tab([k \in 1..Len(rows) |-> rows[k][c]])

Perms(n) == {f \in [1..n -> 1..n] : \A i, j \in 1..n : i # j => f[i] # f[j]}

\* Leaving the enumeration order as it is.
ArgsortNone(keys) == {[i \in 1..Len(keys) |-> i]}

\* np.argsort(keys): a permutation that puts the keys in ascending order.  The
\* default sort is not stable, so equal keys may come out in either order.
ArgsortChoices(keys) ==
    {f \in Perms(Len(keys)) :
        \A i \in 1..(Len(keys) - 1) : ~RatLess(keys[f[i + 1]], keys[f[i]])}

FirstBad(kinds) ==
    LET bad == {i \in 1..Len(kinds) : kinds[i] # "ok"}
    IN  CHOOSE i \in bad : \A j \in bad : i <= j

(***************************************************************************)
(* ipi_md_potential(fpath, nmols, bexclude)                                *)
(***************************************************************************)
\* Lines 178-182: the three values appended for one run, data being
\* data_matrix and e the outcome of _error_from_u(data_matrix[:,5]).
MdRunAppend(data, e) ==
    IF e.kind # "ok" THEN [kind |-> e.kind]
    ELSE [kind |-> "ok",
          T    |-> Mean(Column(data, 1)),
          U    |-> Mean(Column(data, 2)),
          err  |-> e.ret]

MdRunData(data) == MdRunAppend(data, ErrorFromU(Column(data, 2)))

\* One pass of the loop body, lines 168-182, for the run in `file`: a file
\* without any data row makes np.array(...)[bexclude:,:] an IndexError.
MdRun(file, bexclude) ==
    IF Len(file.tail) = 0 /\ file.lead = 0 THEN [kind |-> "IndexError"]
    ELSE MdRunData(Drop(FileRows(file), bexclude))

\* np.array(subfolders, int): the integer value of every name, or ValueError
MdKeysOk(listing) == \A i \in 1..Len(listing) : ParseInt(listing[i]).ok

MdKeys(listing) == Tab([i \in 1..Len(listing) |-> RatOfInt(ParseInt(listing[i]).v)])

ExtScale(q, e) == IF e.k = "fin" THEN Fin(NumScale(q, e.v)) ELSE e

\* subfolders = subfolders[idx]
Reorder(listing, idx) == Tab([i \in 1..Len(listing) |-> listing[idx[i]]])

\* Lines 183-186, or the exception of the first run that raised.
MdReturn(subfolders, runs, nmols, idx) ==
    IF \E i \in 1..Len(runs) : runs[i].kind # "ok"
    THEN [kind |-> runs[FirstBad(Tab([i \in 1..Len(runs) |-> runs[i].kind]))].kind]
    ELSE [kind |-> "ok",
          idx  |-> idx,
          subfolders |-> subfolders,
          T    |-> Tab([i \in 1..Len(runs) |-> runs[i].T]),
          Tf   |-> Tab([i \in 1..Len(runs) |-> ParseFloat(subfolders[i]).v]),
          U    |-> Tab([i \in 1..Len(runs) |-> RatDiv(runs[i].U, RatOfInt(nmols))]),
          err  |-> Tab([i \in 1..Len(runs) |-> ExtScale(Rat(1, nmols), runs[i].err)])]

MdLoop(subfolders, tree, nmols, bexclude, idx) ==
    MdReturn(subfolders,
             Tab([i \in 1..Len(subfolders) |-> MdRun(tree[subfolders[i]], bexclude)]),
             nmols, idx)

IpiMdPotential(listing, tree, nmols, bexclude, idx) ==
    MdLoop(Reorder(listing, idx), tree, nmols, bexclude, idx)

(***************************************************************************)
(* ipi_to_two_potentials(path, cut=200) and integrated_ff_2_dft            *)
(***************************************************************************)
Cut == 200

TwoPotentialsReturn(data, e1, e2) ==
    IF e1.kind # "ok" THEN [kind |-> e1.kind]
    ELSE IF e2.kind # "ok" THEN [kind |-> e2.kind]
    ELSE [kind |-> "ok",
          pot_1 |-> Column(data, 1), pot_2 |-> Column(data, 2),
          pot_1_er |-> e1.ret, pot_2_er |-> e2.ret]

TwoPotentialsData(data) ==
    TwoPotentialsReturn(data, ErrorFromU(Column(data, 1)), ErrorFromU(Column(data, 2)))

IpiToTwoPotentials(file) ==
    IF Len(file.tail) = 0 /\ file.lead = 0 THEN [kind |-> "IndexError"]
    ELSE TwoPotentialsData(Drop(FileRows(file), Cut))

\* Lines 230-232: what one pass of the loop appends, r being the outcome of
\* ipi_to_two_potentials for the sub-directory `subf`.
FfRunAppend(subf, r, nmols) ==
    IF r.kind # "ok" THEN [kind |-> r.kind]
    ELSE IF ~ParseFloat(subf).ok THEN [kind |-> "ValueError"]
    ELSE IF r.pot_1_er.k # "fin" \/ r.pot_2_er.k # "fin" THEN [kind |-> "nonfinite"]
    ELSE [kind |-> "ok",
          du_err |-> NumScale(Rat(1, 2), NumAdd(r.pot_1_er.v, r.pot_2_er.v)),
          du     |-> RatDiv(Mean(Tab([k \in 1..Len(r.pot_1) |->
                                        RatSub(r.pot_2[k], r.pot_1[k])])),
                            RatOfInt(nmols)),
          lambda |-> ParseFloat(subf).v]

FfRun(subf, file, nmols) == FfRunAppend(subf, IpiToTwoPotentials(file), nmols)

FfRuns(listing, tree, nmols) ==
    Tab([i \in 1..Len(listing) |-> FfRun(listing[i], tree[listing[i]], nmols)])

\* What the loop of lines 228-232 ends with: the exception of the first pass
\* that raised; a non-finite error value raises nothing and is only
\* reported when every pass completed.
Raised(kind) == kind \notin {"ok", "nonfinite"}

FfKind(runs) ==
    IF \E i \in 1..Len(runs) : Raised(runs[i].kind)
    THEN runs[FirstBad(Tab([i \in 1..Len(runs) |->
                  IF Raised(runs[i].kind) THEN runs[i].kind ELSE "ok"]))].kind
    ELSE IF \E i \in 1..Len(runs) : runs[i].kind = "nonfinite" THEN "nonfinite"
    ELSE "ok"

FfLoopKind(listing, tree, nmols) == FfKind(FfRuns(listing, tree, nmols))

FfLambdas(listing) == Tab([i \in 1..Len(listing) |-> ParseFloat(listing[i]).v])

\* Lines 240-242
FfReturn(idx, lambda, F, Fmd) ==
    [kind |-> "ok",
     idx |-> idx,
     lambda |-> lambda,
     F_ff_dft |-> F.I,
     F_ff_dft_err_md |-> Fmd.I,
     F_ff_dft_err_int |-> F.err]

FfIntegrate(idx, lambda, ff_dft_du, ff_dft_du_err, lambda_av) ==
    IF lambda_av = RZero THEN [kind |-> "nonfinite"]
    ELSE FfReturn(idx, lambda,
                  Intgrt(lambda, Tab([i \in 1..Len(lambda) |->
                             NumScale(RatDiv(RatOfInt(1), lambda_av), ff_dft_du[i])])),
                  Intgrt(lambda, Tab([i \in 1..Len(lambda) |->
                             NumScale(RatDiv(RatOfInt(1), lambda_av), ff_dft_du_err[i])])))

\* Lines 234-238: the three lists reordered by idx, and lambda_av
FfSorted(idx, lambda, ff_dft_du, ff_dft_du_err) ==
    IF GradientRaises(lambda) THEN [kind |-> "ValueError"]
    ELSE FfIntegrate(idx, lambda, ff_dft_du, ff_dft_du_err, Mean(RatGradient(lambda)))

FfAfterLoop(runs, idx) ==
    FfSorted(idx,
             Tab([i \in 1..Len(runs) |-> runs[idx[i]].lambda]),
             Tab([i \in 1..Len(runs) |-> NumOfRat(runs[idx[i]].du)]),
             Tab([i \in 1..Len(runs) |-> runs[idx[i]].du_err]))

\* Lines 234-242, after a loop in which nothing was raised.
IntegratedFf2Dft(listing, tree, nmols, idx) ==
    FfAfterLoop(FfRuns(listing, tree, nmols), idx)

(***************************************************************************)
(* Specification of the two directory pipelines.                           *)
(***************************************************************************)
InjSeqs(S, n) ==
    {q \in SeqsUpTo(S, n) : \A i, j \in 1..Len(q) : i # j => q[i] # q[j]}

MdNames == <<<<"7">>, <<"0", "7">>, <<"1", "0">>, <<"1", "0", "0">>, <<"x">>>>

IntRows(rows) ==
    Tab([k \in 1..Len(rows) |-> <<RatOfInt(rows[k][1]), RatOfInt(rows[k][2])>>])

MdFiles ==
    << [lead |-> 0, tail |-> IntRows(<< <<7, 1>>, <<7, 3>>, <<9, 5>>, <<7, 3>> >>)],
       [lead |-> 0, tail |-> IntRows(<< <<10, 4>>, <<10, 4>>, <<10, 4>> >>)],
       [lead |-> 0, tail |-> IntRows(<< <<100, 2>>, <<102, 6>>, <<98, 1>> >>)],
       [lead |-> 0, tail |-> IntRows(<< <<50, 1>>, <<50, 2>> >>)] >>

FfNames == <<<<"0">>, <<"0", ".", "5">>, <<"1">>, <<"2">>>>

FfFiles ==
    << [lead |-> Cut, tail |-> IntRows(<< <<1, 3>>, <<2, 3>>, <<1, 5>> >>)],
       [lead |-> Cut, tail |-> IntRows(<< <<0, 2>>, <<0, 2>> >>)],
       [lead |-> Cut - 1, tail |-> IntRows(<< <<5, 5>>, <<1, 2>>, <<3, 2>>, <<2, 6>> >>)],
       [lead |-> Cut, tail |-> IntRows(<< <<4, 4>> >>)] >>

Range(q) == {q[i] : i \in 1..Len(q)}

\* The d-th assignment of the files to the names.
TreeOf(names, files, d) ==
    [nm \in Range(names) |->
        LET i == CHOOSE i \in 1..Len(names) : names[i] = nm
        IN  files[((i + d) % Len(files)) + 1]]

NmolsVals == 1..MaxNmols
BexcludeVals == {0, 1}

InitRuns ==
    /\ pc = "start"
    /\ result = [kind |-> "none"]
    /\ \/ args \in {[fn |-> "md", listing |-> l, tree |-> TreeOf(MdNames, MdFiles, d),
                     nmols |-> m, bexclude |-> b] :
                       l \in InjSeqs(Range(MdNames), MaxDirs), d \in 1..MaxTrees,
                       m \in NmolsVals, b \in BexcludeVals}
       \/ args \in {[fn |-> "ff", listing |-> l, tree |-> TreeOf(FfNames, FfFiles, d),
                     nmols |-> m] :
                       l \in InjSeqs(Range(FfNames), MaxDirs), d \in 1..MaxTrees,
                       m \in NmolsVals}

CallIpiMdPotential ==
    /\ pc = "start"
    /\ args.fn = "md"
    /\ pc' = "done"
    /\ IF ~MdKeysOk(args.listing) THEN result' = [kind |-> "ValueError"]
       ELSE \E idx \in ArgsortChoices(MdKeys(args.listing)) :
                result' = IpiMdPotential(args.listing, args.tree, args.nmols,
                                         args.bexclude, idx)
    /\ UNCHANGED args

CallIntegratedFf2Dft ==
    /\ pc = "start"
    /\ args.fn = "ff"
    /\ pc' = "done"
    /\ IF FfLoopKind(args.listing, args.tree, args.nmols) # "ok"
       THEN result' = [kind |-> FfLoopKind(args.listing, args.tree, args.nmols)]
       ELSE \E idx \in ArgsortChoices(FfLambdas(args.listing)) :
                result' = IntegratedFf2Dft(args.listing, args.tree, args.nmols, idx)
    /\ UNCHANGED args

NextRuns == CallIpiMdPotential \/ CallIntegratedFf2Dft

SpecRuns == InitRuns /\ [][NextRuns]_vars

Ascending(q) == \A i, j \in 1..Len(q) : i < j => ~RatLess(q[j], q[i])

NamesAreIntegers(listing) == \A i \in 1..Len(listing) : AllDigits(listing[i])

LexLess(a, b) ==
    \E k \in 1..Len(b) :
        /\ \A j \in 1..(k - 1) : j <= Len(a) /\ a[j] = b[j]
        /\ \/ k > Len(a)
           \/ DigitVal(a[k]) < DigitVal(b[k])

\* C5: for integer-named run directories in any enumeration order, the four
\* sequences ipi_md_potential returns have one entry per directory, the labels
\* ascend numerically, and at each index the mean temperature, the mean
\* potential energy over nmols and the error over nmols are those of the run
\* in the directory that carries the label at that index.
C5_SortedAndAligned ==
    (pc = "done" /\ args.fn = "md" /\ NamesAreIntegers(args.listing)
                 /\ result.kind = "ok") =>
        /\ Len(result.T) = Len(args.listing)
        /\ Len(result.Tf) = Len(args.listing)
        /\ Len(result.U) = Len(args.listing)
        /\ Len(result.err) = Len(args.listing)
        /\ Range(result.subfolders) = Range(args.listing)
        /\ Ascending(result.Tf)
        /\ \A i \in 1..Len(args.listing) :
              LET name == result.subfolders[i]
                  run  == MdRun(args.tree[name], args.bexclude)
              IN  /\ result.Tf[i] = RatOfInt(DigitsVal(name))
                  /\ result.T[i] = run.T
                  /\ result.U[i] = RatDiv(run.U, RatOfInt(args.nmols))
                  /\ result.err[i] = ExtScale(Rat(1, args.nmols), run.err)

\* A call in which the enumeration order, the lexical order and the numeric
\* order all differ, and the runs differ in every returned quantity.
C5_Witness ==
    /\ pc = "done"
    /\ args.fn = "md"
    /\ NamesAreIntegers(args.listing)
    /\ result.kind = "ok"
    /\ Len(args.listing) = 3
    /\ result.subfolders # args.listing
    /\ \E i \in 1..2 : LexLess(result.subfolders[i + 1], result.subfolders[i])
    /\ \A i, j \in 1..3 : i # j =>
          /\ result.T[i] # result.T[j]
          /\ result.U[i] # result.U[j]

\* C9: multiplying nmols by a factor c divides by c every energy and error
\* value that ipi_md_potential and integrated_ff_2_dft return, the
\* MD-propagated error band of integrated_ff_2_dft included.
C9_NmolsScalesEverything ==
    (pc = "done" /\ result.kind = "ok") =>
        \A c \in 2..3 :
            IF args.fn = "md" THEN
                LET r == IpiMdPotential(args.listing, args.tree, c * args.nmols,
                                        args.bexclude, result.idx)
                IN  \A i \in 1..Len(result.U) :
                        /\ r.U[i] = RatDiv(result.U[i], RatOfInt(c))
                        /\ r.err[i] = ExtScale(Rat(1, c), result.err[i])
            ELSE
                LET r == IntegratedFf2Dft(args.listing, args.tree, c * args.nmols,
                                          result.idx)
                IN  \A i \in 1..Len(result.F_ff_dft) :
                        /\ r.F_ff_dft[i] = NumScale(Rat(1, c), result.F_ff_dft[i])
                        /\ r.F_ff_dft_err_int[i] =
                               NumScale(Rat(1, c), result.F_ff_dft_err_int[i])
                        /\ r.F_ff_dft_err_md[i] =
                               NumScale(Rat(1, c), result.F_ff_dft_err_md[i])

\* C9 without the MD-propagated error band of integrated_ff_2_dft (holds).
NmolsScalesAllButFfErrorBand ==
    (pc = "done" /\ result.kind = "ok") =>
        \A c \in 2..3 :
            IF args.fn = "md" THEN
                LET r == IpiMdPotential(args.listing, args.tree, c * args.nmols,
                                        args.bexclude, result.idx)
                IN  \A i \in 1..Len(result.U) :
                        /\ r.U[i] = RatDiv(result.U[i], RatOfInt(c))
                        /\ r.err[i] = ExtScale(Rat(1, c), result.err[i])
            ELSE
                LET r == IntegratedFf2Dft(args.listing, args.tree, c * args.nmols,
                                          result.idx)
                IN  \A i \in 1..Len(result.F_ff_dft) :
                        /\ r.F_ff_dft[i] = NumScale(Rat(1, c), result.F_ff_dft[i])
                        /\ r.F_ff_dft_err_int[i] =
                               NumScale(Rat(1, c), result.F_ff_dft_err_int[i])
                        /\ r.F_ff_dft_err_md[i] = result.F_ff_dft_err_md[i]

(***************************************************************************)
(* fe_sample.__init__: the path of the temperature series.  Tf, the float  *)
(* labels returned by ipi_md_potential(..., bexclude=1000), is the series  *)
(* handed to integrated_anharmonic_energy and used in f_harm_part and      *)
(* f_class_nucl.  Logarithms are kept as their arguments; the harmonic     *)
(* free-energy readers loop over Tf without indexing it and are taken to   *)
(* return.                                                                 *)
(***************************************************************************)
Bexclude == 1000

\* T/T[0], element by element
OverFirst(T, T0) == Tab([i \in 1..Len(T) |-> ExtRatDiv(T[i], T0)])

\* integrated_anharmonic_energy(T, ...): x = np.log(T/T[0]), y = .../T[0]/kb_ev
IntegratedAnharmonicEnergy(T) == [T0 |-> T[1], log_of |-> OverFirst(T, T[1])]

\* Referring f_harm_part to the last temperature of the series instead.
FHarmPartLast(Tf) == [T0 |-> Tf[Len(Tf)], factor |-> OverFirst(Tf, Tf[Len(Tf)])]

\* self.f_harm_part = (self.F_harm_c_ipi[0]-self.U_latt)*self.Tf/self.Tf[0]
FHarmPart(Tf) == [T0 |-> Tf[1], factor |-> OverFirst(Tf, Tf[1])]

\* self.f_class_nucl = kb_ev*self.Tf*(...)*np.log(self.Tf/self.Tf[0])/...
FClassNucl(Tf) == [T0 |-> Tf[1], log_of |-> OverFirst(Tf, Tf[1])]

\* Lines 305-313, given what ipi_md_potential returned; T[0] of an empty
\* series is an IndexError.
FeSampleFromMd(U_latt, md) ==
    IF md.kind # "ok" THEN [kind |-> md.kind]
    ELSE IF Len(md.Tf) = 0 THEN [kind |-> "IndexError"]
    ELSE [kind |-> "ok",
          U_latt |-> U_latt,
          subfolders |-> md.subfolders,
          Tf |-> md.Tf,
          transform |-> IntegratedAnharmonicEnergy(md.Tf),
          f_harm_part |-> FHarmPart(md.Tf),
          f_class_nucl |-> FClassNucl(md.Tf)]

FeSample(log, listing, tree, ulatt_nmols, md_nmols, idx) ==
    FeSampleFromMd(RatDiv(log.val, RatOfInt(ulatt_nmols)),
                   IpiMdPotential(listing, tree, md_nmols, Bexclude, idx))

FeLogs ==
    { << <<"5", " ", "8", ".", "5", "\n">>,
         <<"L", "o", "o", "p", " ", "t", "i", "m", "e", " ", "o", "f", " ", "1", "\n">> >>,
      << <<"7", "\n">> >> }

FeFiles == Tab([i \in 1..Len(MdFiles) |-> [lead |-> Bexclude, tail |-> MdFiles[i].tail]])

InitFe ==
    /\ pc = "start"
    /\ result = [kind |-> "none"]
    /\ args \in {[lines |-> g, listing |-> l, tree |-> TreeOf(MdNames, FeFiles, d),
                  ulatt_nmols |-> m, md_nmols |-> m] :
                    g \in FeLogs, l \in InjSeqs(Range(MdNames), MaxDirs),
                    d \in 1..MaxTrees, m \in NmolsVals}

CallFeSample ==
    /\ pc = "start"
    /\ pc' = "done"
    /\ IF LammpsLogToULatt(args.lines).kind # "ok"
       THEN result' = [kind |-> LammpsLogToULatt(args.lines).kind]
       ELSE IF ~MdKeysOk(args.listing) THEN result' = [kind |-> "ValueError"]
       ELSE \E idx \in ArgsortChoices(MdKeys(args.listing)) :
                result' = FeSample(LammpsLogToULatt(args.lines), args.listing,
                                   args.tree, args.ulatt_nmols, args.md_nmols, idx)
    /\ UNCHANGED args

NextFe == CallFeSample

SpecFe == InitFe /\ [][NextFe]_vars

\* C6: the reference temperature is the same value in the transform, in
\* f_harm_part and in f_class_nucl; it is the first element of the series
\* passed to them, and no run directory has a lower temperature label.
C6_OneReferenceTemperature ==
    (pc = "done" /\ result.kind = "ok") =>
        /\ result.transform.T0 = result.Tf[1]
        /\ result.f_harm_part.T0 = result.transform.T0
        /\ result.f_class_nucl.T0 = result.transform.T0
        /\ \A i \in 1..Len(result.Tf) : ~RatLess(result.Tf[i], result.transform.T0)
        /\ \A i \in 1..Len(args.listing) :
              ~RatLess(ParseFloat(args.listing[i]).v, result.transform.T0)
        /\ \E i \in 1..Len(args.listing) :
              ParseFloat(args.listing[i]).v = result.transform.T0

\* Three runs whose lowest label is neither enumerated first nor lexically
\* first.
C6_Witness ==
    /\ pc = "done"
    /\ result.kind = "ok"
    /\ Len(args.listing) = 3
    /\ result.subfolders[1] # args.listing[1]
    /\ \E i \in 2..3 : LexLess(result.subfolders[i], result.subfolders[1])
    /\ result.transform.T0 = result.Tf[1]
    /\ \A i \in 2..3 : RatLess(result.transform.T0, result.Tf[i])

(***************************************************************************)
(* Specification of intgrt: the inputs are drawn in Init, the action calls *)
(* the function.                                                           *)
(***************************************************************************)
XVals == 0..MaxX
YVals == (-MaxY)..MaxY
Slopes == {-1, 0, 1, 2}
Offsets == {-1, 0, 1}

LinearY(x, a, b) == [k \in 1..Len(x) |-> a * x[k] + b]

IntgrtInputs ==
    {[x |-> x, y |-> y] : x \in SeqsUpTo(XVals, MaxN), y \in SeqsUpTo(YVals, MaxN)}

IntgrtArgs ==
    {in \in IntgrtInputs : Len(in.x) = Len(in.y)}
    \cup {[x |-> x, y |-> LinearY(x, a, b)] :
             x \in SeqsUpTo(XVals, MaxN), a \in Slopes, b \in Offsets}

InitIntgrt ==
    /\ pc = "start"
    /\ args \in IntgrtArgs
    /\ result = [kind |-> "none"]

CallIntgrt ==
    /\ pc = "start"
    /\ pc' = "done"
    /\ result' = Intgrt(RatSeq(args.x), NumSeq(args.y))
    /\ UNCHANGED args

NextIntgrt == CallIntgrt

SpecIntgrt == InitIntgrt /\ [][NextIntgrt]_vars

StrictlyMonotonic(x) ==
    \/ \A k \in 1..(Len(x) - 1) : x[k] < x[k + 1]
    \/ \A k \in 1..(Len(x) - 1) : x[k] > x[k + 1]

\* a/2*(x[k]^2 - x[0]^2) + b*(x[k] - x[0])
LinearClosedForm(x, a, b, k) ==
    NumOfRat(RatAdd(Rat(a * (x[k] * x[k] - x[1] * x[1]), 2),
                    RatOfInt(b * (x[k] - x[1]))))

IsLinearInput(a, b) ==
    /\ Len(args.x) >= 1
    /\ StrictlyMonotonic(args.x)
    /\ args.y = LinearY(args.x, a, b)

\* C1: for a strictly monotonic x (uniform or not) and y = a*x + b, the
\* cumulative integral equals the closed form at every index and the
\* truncation-error sequence is zero at every index.
C1_LinearExact ==
    pc = "done" =>
        \A a \in Slopes, b \in Offsets :
            IsLinearInput(a, b) =>
                \A k \in 1..Len(args.x) :
                    /\ result.I[k] = LinearClosedForm(args.x, a, b, k)
                    /\ result.err[k] = NumZero

\* The integral half of C1 alone (holds; the error half is what fails).
IntgrtLinearIntegralExact ==
    pc = "done" =>
        \A a \in Slopes, b \in Offsets :
            IsLinearInput(a, b) =>
                \A k \in 1..Len(args.x) :
                    result.I[k] = LinearClosedForm(args.x, a, b, k)

\* C2: intgrt on an empty or one-element input does not raise and returns
\* an integral sequence and an error sequence of exactly one element, 0.
C2_DegenerateInput ==
    (pc = "done" /\ Len(args.x) <= 1) =>
        result = [kind |-> "ok", I |-> <<NumZero>>, err |-> <<NumZero>>]

C2_Witness ==
    /\ pc = "done"
    /\ Len(args.x) = 1
    /\ args.y[1] # 0
    /\ result.kind = "ok"
    /\ result.I = <<NumZero>>

\* C3 as stated: both returned sequences have the length of x, the empty
\* input included, and both start with 0.
C3_SameLengthAsInput ==
    pc = "done" =>
        /\ Len(result.I) = Len(args.x)
        /\ Len(result.err) = Len(args.x)
        /\ result.I[1] = NumZero
        /\ result.err[1] = NumZero

\* C3 amended: both returned sequences start with 0 and have the length of
\* x when x is not empty, and length 1 when x is empty.
C3_LengthAtLeastOne ==
    pc = "done" =>
        LET n == IF Len(args.x) = 0 THEN 1 ELSE Len(args.x)
        IN  /\ Len(result.I) = n
            /\ Len(result.err) = n
            /\ result.I[1] = NumZero
            /\ result.err[1] = NumZero

C3_Witness ==
    /\ pc = "done"
    /\ Len(args.x) = 0
    /\ Len(result.I) = 1
    /\ Len(result.err) = 1

=============================================================================
